---- MODULE Spec2Model ----
(***************************************************************************)
(* State-machine model of the client-side synchronisation layer of         *)
(* rtnews-ui: the request gateway and article cache (api module), the      *)
(* active-article long poll, and the notification queue of the store.      *)
(*                                                                         *)
(* Asynchronous functions are split at their awaits: one action for the    *)
(* synchronous prefix of a call, one for each resumption.  Everything      *)
(* between two awaits is one atomic step (single-threaded event loop).     *)
(***************************************************************************)
EXTENDS Integers, Sequences, FiniteSets, TLC

(***************************************************************************)
(* Bounds of the model.                                                    *)
(***************************************************************************)
\* number of getArticle / getArticleBySlug calls made in one behaviour
MaxGets == 2
\* number of network requests issued by the article functions
MaxRequests == 3
\* number of concurrent pollActiveArticle calls
MaxPollers == 2
\* the per-call counter of long-poll requests saturates here
MaxPollCount == 2
\* number of notifications added in one behaviour
MaxNotifications == 3
\* number of setTheme calls made in one behaviour
MaxThemeCalls == 3
\* number of login / loginViaStorage calls made in one behaviour
MaxLogins == 2
\* number of requests made through request() in the gateway component
MaxGatewayRequests == 2
\* number of makeArticleFirst calls made in one behaviour
MaxMoves == 1
\* number of segments a raw snippet is put together from
MaxSegments == 3
\* number of times a snippet is normalised
MaxPasses == 2

\* article ids, slugs and titles the server and the callers draw from
Ids == {"1", "2"}
Slugs == {"a", "b"}
Titles == {"t1", "t2"}

VARIABLES
    articlesCache,      \* Map slug -> Article (a function on the cached slugs)
    articlesIdSlugMap,  \* Map id -> slug (a function on the indexed ids)
    calls,              \* the getArticle/getArticleBySlug calls made so far
    nreq,               \* number of requests handed to fetch by the article functions
    lastReq,            \* the latest of them: the function that issued it, and its argument
    writes,             \* history: the updateArticle calls made so far: the id, the slugs
                        \* evicted, the lookups in flight, whether the request completed
    polls,              \* the pollActiveArticle calls: where each one stands
    state,              \* the redux store's state
    notificationId,     \* the module counter of store.tsx
    handles,            \* the notifications addNotification has returned, by id
    timers,             \* ids of the notifications whose setTimeout is pending
    removers,           \* ids of the notifications whose producer got a remover
    removedBy,          \* for each id, the operation that took it out of the queue
    themeCounter,       \* the module counter of store.tsx
    datasetTheme,       \* document.documentElement.dataset.theme
    classList,          \* document.documentElement.classList
    themeTimers,        \* the pending setTimeout callbacks of setTheme, oldest first
    themeCalls,         \* number of setTheme calls made so far
    themeSettled,       \* history: the value each settle step left in themeCounter
    authStorage,        \* localStorage item "rt-news.auth" (Null when absent)
    lastAuthOp,         \* history: the last operation that wrote authStorage
    logins,             \* the login / loginViaStorage calls made so far
    gateway,            \* the promises request() has returned in the gateway component
    sent,               \* the headers of the latest request handed to fetch by request()
    moves,              \* the makeArticleFirst calls made so far
    snippet,            \* a snippet: a sequence of characters
    nseg,               \* number of segments the raw snippet was put together from
    passes              \* number of times the snippet went through processArticle

cacheVars == <<articlesCache, articlesIdSlugMap, calls, nreq, lastReq, writes>>
pollVars == <<polls>>
notifVars == <<state, notificationId, handles, timers, removers, removedBy>>
themeVars == <<themeCounter, datasetTheme, classList, themeTimers, themeCalls, themeSettled>>
authVars == <<authStorage, lastAuthOp, logins, gateway, sent>>
moveVars == <<moves>>
snippetVars == <<snippet, nseg, passes>>
vars == <<cacheVars, pollVars, notifVars, themeVars, authVars, moveVars, snippetVars>>

\* what the actions of one component leave alone (setTheme writes the store's
\* state as well as its own variables)
notCache == <<pollVars, notifVars, themeVars, authVars, moveVars, snippetVars>>
notPoll == <<cacheVars, notifVars, themeVars, authVars, moveVars, snippetVars>>
notNotif == <<cacheVars, pollVars, themeVars, authVars, moveVars, snippetVars>>
notTheme ==
    <<cacheVars, pollVars, notificationId, handles, timers, removers, removedBy,
      authVars, moveVars, snippetVars>>
notAuth == <<cacheVars, pollVars, notifVars, themeVars, moveVars, snippetVars>>
notMove == <<cacheVars, pollVars, notifVars, themeVars, authVars, snippetVars>>
notSnippet == <<cacheVars, pollVars, notifVars, themeVars, authVars, moveVars>>

(***************************************************************************)
(* JavaScript Map operations on functions with a finite domain.            *)
(***************************************************************************)
EmptyMap == [k \in {} |-> k]

MapHas(m, k) == k \in DOMAIN m

MapSet(m, k, v) == [x \in (DOMAIN m) \cup {k} |-> IF x = k THEN v ELSE m[x]]

(***************************************************************************)
(* HTTP responses.  status 0 stands for fetch itself rejecting (network    *)
(* failure).  The raw body is empty, not JSON, a JSON object without an    *)
(* id field, or a JSON object with an id field (kind "withid").            *)
(***************************************************************************)
RawBodies ==
    {[kind |-> k, id |-> "", slug |-> "", title |-> ""] : k \in {"empty", "unparsable", "noid"}}
    \cup {[kind |-> "withid", id |-> i, slug |-> s, title |-> t] :
            i \in Ids, s \in Slugs, t \in Titles}

EmptyBody == [kind |-> "empty", id |-> "", slug |-> "", title |-> ""]

Responses ==
    {[status |-> st, body |-> EmptyBody] : st \in {0, 404, 500}}
    \cup {[status |-> 200, body |-> b] : b \in RawBodies}

NoResponse == [status |-> -1, body |-> EmptyBody]

\* req.json().catch(() => null): an empty or unparsable body parses to null
jsonOrNull(body) ==
    IF body.kind \in {"empty", "unparsable"}
    THEN [kind |-> "null", id |-> "", slug |-> "", title |-> ""]
    ELSE body

\* a request() that throws on server errors only
request_serverErrorsOnly(resp) ==
    IF resp.status = 0
    THEN [ok |-> FALSE, err |-> "NetworkError", thrown |-> <<>>,
          body |-> jsonOrNull(EmptyBody)]
    ELSE IF resp.status >= 500
    THEN [ok |-> FALSE, err |-> "Response", thrown |-> <<resp>>,
          body |-> jsonOrNull(EmptyBody)]
    ELSE [ok |-> TRUE, err |-> "", thrown |-> <<>>, body |-> jsonOrNull(resp.body)]

\* the promise returned by request(): rejected by fetch, rejected with the raw
\* response (thrown) when status >= 400, otherwise resolved with the parsed
\* body or null
request(resp) ==
    IF resp.status = 0
    THEN [ok |-> FALSE, err |-> "NetworkError", thrown |-> <<>>,
          body |-> jsonOrNull(EmptyBody)]
    ELSE IF resp.status >= 400
    THEN [ok |-> FALSE, err |-> "Response", thrown |-> <<resp>>,
          body |-> jsonOrNull(EmptyBody)]
    ELSE [ok |-> TRUE, err |-> "", thrown |-> <<>>, body |-> jsonOrNull(resp.body)]

\* articleInit.hasOwnProperty("id"), defined on objects only
hasOwnPropertyId(body) == body.kind = "withid"

\* processArticle: a fresh Article object (obj is its identity) with the
\* fields of the raw article
processArticle(body, obj) ==
    [obj |-> obj, id |-> body.id, slug |-> body.slug, title |-> body.title]

(***************************************************************************)
(* Outcomes of a call: what its promise settles to.                        *)
(***************************************************************************)
Pending == [kind |-> "pending", err |-> "", art |-> <<>>]
ResolvedNull == [kind |-> "null", err |-> "", art |-> <<>>]
ResolvedUndefined == [kind |-> "undefined", err |-> "", art |-> <<>>]
ResolvedArticle(a) == [kind |-> "article", err |-> "", art |-> <<a>>]
Rejected(e) == [kind |-> "rejected", err |-> e, art |-> <<>>]

\* articlesCache.get(slug): the Article or undefined
cacheGet(cache, slug) ==
    IF MapHas(cache, slug) THEN ResolvedArticle(cache[slug]) ELSE ResolvedUndefined

Init_cache ==
    /\ articlesCache = EmptyMap
    /\ articlesIdSlugMap = EmptyMap
    /\ calls = <<>>
    /\ nreq = 0
    /\ lastReq = [op |-> "", arg |-> ""]
    /\ writes = <<>>

(***************************************************************************)
(* getArticle(id): the synchronous prefix.  A hit resolves at once with    *)
(* whatever articlesCache holds under the indexed slug; a miss issues      *)
(* GET /news/id/{id} and suspends.                                         *)
(***************************************************************************)
getArticle_hit(id) ==
    /\ Len(calls) < MaxGets
    /\ MapHas(articlesIdSlugMap, id)
    /\ calls' = Append(calls, [op |-> "getArticle", arg |-> id, hit |-> TRUE,
                               resp |-> NoResponse,
                               out |-> cacheGet(articlesCache, articlesIdSlugMap[id])])
    /\ UNCHANGED <<articlesCache, articlesIdSlugMap, nreq, lastReq, writes>>

\* a getArticle that joins the pending fetch of the same id instead of
\* issuing its own
getArticle_miss_singleFlight(id) ==
    LET joins == \E j \in 1..Len(calls) :
                    /\ calls[j].op = "getArticle"
                    /\ calls[j].arg = id
                    /\ calls[j].out.kind = "pending"
    IN
    /\ Len(calls) < MaxGets
    /\ nreq < MaxRequests
    /\ ~MapHas(articlesIdSlugMap, id)
    /\ calls' = Append(calls, [op |-> "getArticle", arg |-> id, hit |-> FALSE,
                               resp |-> NoResponse, out |-> Pending])
    /\ IF joins
       THEN UNCHANGED <<nreq, lastReq>>
       ELSE nreq' = nreq + 1 /\ lastReq' = [op |-> "getArticle", arg |-> id]
    /\ UNCHANGED <<articlesCache, articlesIdSlugMap, writes>>

getArticle_miss(id) ==
    /\ Len(calls) < MaxGets
    /\ nreq < MaxRequests
    /\ ~MapHas(articlesIdSlugMap, id)
    /\ calls' = Append(calls, [op |-> "getArticle", arg |-> id, hit |-> FALSE,
                               resp |-> NoResponse, out |-> Pending])
    /\ nreq' = nreq + 1
    /\ lastReq' = [op |-> "getArticle", arg |-> id]
    /\ UNCHANGED <<articlesCache, articlesIdSlugMap, writes>>

getArticleBySlug_hit(slug) ==
    /\ Len(calls) < MaxGets
    /\ MapHas(articlesCache, slug)
    /\ calls' = Append(calls, [op |-> "getArticleBySlug", arg |-> slug, hit |-> TRUE,
                               resp |-> NoResponse,
                               out |-> cacheGet(articlesCache, slug)])
    /\ UNCHANGED <<articlesCache, articlesIdSlugMap, nreq, lastReq, writes>>

getArticleBySlug_miss(slug) ==
    /\ Len(calls) < MaxGets
    /\ nreq < MaxRequests
    /\ ~MapHas(articlesCache, slug)
    /\ calls' = Append(calls, [op |-> "getArticleBySlug", arg |-> slug, hit |-> FALSE,
                               resp |-> NoResponse, out |-> Pending])
    /\ nreq' = nreq + 1
    /\ lastReq' = [op |-> "getArticleBySlug", arg |-> slug]
    /\ UNCHANGED <<articlesCache, articlesIdSlugMap, writes>>

(***************************************************************************)
(* The resumption of call k after `await request(...)` with response resp. *)
(***************************************************************************)
\* key under which the fetched article is stored in articlesCache
cacheKey(call, article) ==
    IF call.op = "getArticle" THEN article.slug ELSE call.arg

\* the outcome of the code after the await
getOutcome(k, r) ==
    IF ~r.ok THEN Rejected(r.err)
    ELSE IF r.body.kind = "null" THEN Rejected("TypeError")
    ELSE IF ~hasOwnPropertyId(r.body) THEN ResolvedNull
    ELSE ResolvedArticle(processArticle(r.body, k))

get_resume(k, resp) ==
    LET r == request(resp)
        o == getOutcome(k, r)
    IN
    /\ k \in 1..Len(calls)
    /\ calls[k].out.kind = "pending"
    /\ calls' = [calls EXCEPT ![k].resp = resp, ![k].out = o]
    /\ IF o.kind = "article"
       THEN /\ articlesCache' = MapSet(articlesCache, cacheKey(calls[k], o.art[1]), o.art[1])
            /\ articlesIdSlugMap' = MapSet(articlesIdSlugMap, o.art[1].id, o.art[1].slug)
       ELSE UNCHANGED <<articlesCache, articlesIdSlugMap>>
    /\ UNCHANGED <<nreq, lastReq, writes>>

(***************************************************************************)
(* Mutations.  addArticle evicts by title, updateArticle by id; the other  *)
(* eight only issue their request.                                         *)
(***************************************************************************)
\* the slugs whose cached Article satisfies the match
evictedSlugs(cache, field, value) ==
    {s \in DOMAIN cache : cache[s][field] = value}

\* the for-loop of addArticle / updateArticle over articlesCache.entries()
evictCache(cache, field, value) ==
    [s \in (DOMAIN cache) \ evictedSlugs(cache, field, value) |-> cache[s]]

evictIndex(index, cache, field, value) ==
    [i \in (DOMAIN index) \ {cache[s].id : s \in evictedSlugs(cache, field, value)}
        |-> index[i]]

addArticle(title) ==
    /\ nreq < MaxRequests
    /\ articlesCache' = evictCache(articlesCache, "title", title)
    /\ articlesIdSlugMap' = evictIndex(articlesIdSlugMap, articlesCache, "title", title)
    /\ nreq' = nreq + 1
    /\ lastReq' = [op |-> "addArticle", arg |-> title]
    /\ UNCHANGED <<calls, writes>>

\* the lookups whose fetch is in flight
pendingCalls == {k \in 1..Len(calls) : calls[k].out.kind = "pending"}

updateArticle(id) ==
    /\ nreq < MaxRequests
    /\ articlesCache' = evictCache(articlesCache, "id", id)
    /\ articlesIdSlugMap' = evictIndex(articlesIdSlugMap, articlesCache, "id", id)
    /\ nreq' = nreq + 1
    /\ lastReq' = [op |-> "updateArticle", arg |-> id]
    /\ writes' = Append(writes,
            [id |-> id, evicted |-> evictedSlugs(articlesCache, "id", id),
             before |-> pendingCalls, done |-> FALSE])
    /\ UNCHANGED calls

\* the request of updateArticle call w settles; the code does nothing then
write_resume(w) ==
    /\ w \in 1..Len(writes)
    /\ ~writes[w].done
    /\ writes' = [writes EXCEPT ![w].done = TRUE]
    /\ UNCHANGED <<articlesCache, articlesIdSlugMap, calls, nreq, lastReq>>

\* archiveArticle, activateArticle, removeArticle, restoreArticle, moveArticle,
\* makeArticleGeek, makeArticleNotGeek: return request(...) and nothing else
IdOnlyMutations ==
    {"archiveArticle", "activateArticle", "removeArticle", "restoreArticle",
     "moveArticle", "makeArticleGeek", "makeArticleNotGeek"}

idOnlyMutation(op, id) ==
    /\ op \in IdOnlyMutations
    /\ nreq < MaxRequests
    /\ nreq' = nreq + 1
    /\ lastReq' = [op |-> op, arg |-> id]
    /\ UNCHANGED <<articlesCache, articlesIdSlugMap, calls, writes>>

\* the lookups alone
Next_get ==
    \/ \E id \in Ids : getArticle_hit(id) /\ UNCHANGED notCache
    \/ \E id \in Ids : getArticle_miss(id) /\ UNCHANGED notCache
    \/ \E slug \in Slugs : getArticleBySlug_hit(slug) /\ UNCHANGED notCache
    \/ \E slug \in Slugs : getArticleBySlug_miss(slug) /\ UNCHANGED notCache
    \/ \E k \in 1..MaxGets, resp \in Responses : get_resume(k, resp) /\ UNCHANGED notCache

Next_cache ==
    \/ \E id \in Ids : getArticle_hit(id) /\ UNCHANGED notCache
    \/ \E id \in Ids : getArticle_miss(id) /\ UNCHANGED notCache
    \/ \E slug \in Slugs : getArticleBySlug_hit(slug) /\ UNCHANGED notCache
    \/ \E slug \in Slugs : getArticleBySlug_miss(slug) /\ UNCHANGED notCache
    \/ \E k \in 1..MaxGets, resp \in Responses : get_resume(k, resp) /\ UNCHANGED notCache
    \/ \E title \in Titles : addArticle(title) /\ UNCHANGED notCache
    \/ \E id \in Ids : updateArticle(id) /\ UNCHANGED notCache
    \/ \E w \in 1..MaxRequests : write_resume(w) /\ UNCHANGED notCache
    \/ \E op \in IdOnlyMutations, id \in Ids : idOnlyMutation(op, id) /\ UNCHANGED notCache

(***************************************************************************)
(* pollActiveArticle.  Each call is a loop around                          *)
(* `await request("/news/active/wait/" + ms)`; the catch block logs and    *)
(* awaits sleep(3000).  A call is idle (not made yet), awaiting its        *)
(* long-poll response, sleeping in the cooldown, or settled.  reqs counts  *)
(* its requests; failed and idless record that a request of it failed, or  *)
(* was answered without an id.                                             *)
(***************************************************************************)
\* the cooldown of the catch block, in ms
PollCooldown == 3000

Saturate(n) == IF n < MaxPollCount THEN n + 1 ELSE n

IdlePoll ==
    [pc |-> "idle", delay |-> 0, value |-> "", reqs |-> 0, failed |-> FALSE, idless |-> FALSE]

Init_poll == polls = [p \in 1..MaxPollers |-> IdlePoll]

\* the call: the first iteration issues the long-poll request
pollActiveArticle(p) ==
    /\ polls[p].pc = "idle"
    /\ polls' = [polls EXCEPT ![p].pc = "await", ![p].reqs = 1]

\* a try block that takes the response without an id for the answer
pollTry_inverted(poll, r) ==
    IF r.body.kind # "null" /\ hasOwnPropertyId(r.body)
    THEN [poll EXCEPT !.pc = "await", !.reqs = Saturate(poll.reqs)]
    ELSE [poll EXCEPT !.pc = "resolved", !.value = r.body.id, !.idless = TRUE]

\* the try block after the await: return req.id, or fall through to the next
\* iteration, which issues the next request at once
pollTry(poll, r) ==
    IF r.body.kind # "null" /\ hasOwnPropertyId(r.body)
    THEN [poll EXCEPT !.pc = "resolved", !.value = r.body.id]
    ELSE [poll EXCEPT !.pc = "await", !.reqs = Saturate(poll.reqs),
                      !.idless = TRUE]

\* a catch block that logs and rethrows
pollCatch_rethrow(poll) ==
    [poll EXCEPT !.pc = "rejected", !.failed = TRUE]

\* the catch block: console.error, then await sleep(3000)
pollCatch(poll) ==
    [poll EXCEPT !.pc = "sleep", !.delay = PollCooldown,
                 !.failed = TRUE]

poll_resume(p, resp) ==
    LET r == request(resp) IN
    /\ polls[p].pc = "await"
    /\ polls' = [polls EXCEPT ![p] = IF r.ok THEN pollTry(polls[p], r)
                                          ELSE pollCatch(polls[p])]

\* the sleep timer fires: the loop issues the next long-poll request
poll_wake(p) ==
    /\ polls[p].pc = "sleep"
    /\ polls' = [polls EXCEPT ![p].pc = "await", ![p].delay = 0,
                              ![p].reqs = Saturate(polls[p].reqs)]

\* bodies of a long-poll response: {id?: string}
PollResponses ==
    {[status |-> st, body |-> EmptyBody] : st \in {0, 404, 500}}
    \cup {[status |-> 200, body |-> [kind |-> k, id |-> "", slug |-> "", title |-> ""]] :
            k \in {"empty", "unparsable", "noid"}}
    \cup {[status |-> 200, body |-> [kind |-> "withid", id |-> i, slug |-> "", title |-> ""]] :
            i \in Ids}

IdResponses == {r \in PollResponses : r.status = 200 /\ r.body.kind = "withid"}

Next_poll ==
    \/ \E p \in 1..MaxPollers : pollActiveArticle(p) /\ UNCHANGED notPoll
    \/ \E p \in 1..MaxPollers, resp \in PollResponses : poll_resume(p, resp) /\ UNCHANGED notPoll
    \/ \E p \in 1..MaxPollers : poll_wake(p) /\ UNCHANGED notPoll

(***************************************************************************)
(* The store (store.tsx): the reducer, the notification queue and its      *)
(* timers.  A Notification object is a record; its id is unique, so record *)
(* equality is object identity.  time is <<ms>> or <<>> for null.          *)
(***************************************************************************)
Null == "null"
Contexts == {Null, "ctxA", "ctxB"}

initialState ==
    [issueNumber |-> Null, isAdmin |-> FALSE, notifications |-> <<>>,
     activeId |-> Null, theme |-> "day"]

\* Array.prototype.indexOf: the first index (from 0) holding x, or -1
indexOf(list, x) ==
    IF \E i \in 1..Len(list) : list[i] = x
    THEN (CHOOSE i \in 1..Len(list) : list[i] = x /\ \A j \in 1..(i - 1) : list[j] # x) - 1
    ELSE -1

\* list.slice(from) and list.slice(0, to) for 0 <= from, to <= length
sliceFrom(list, from) == SubSeq(list, from + 1, Len(list))
sliceTo(list, to) == SubSeq(list, 1, to)

removeAt(list, index) == sliceTo(list, index) \o sliceFrom(list, index + 1)

\* the reducer without `if (index < 0) return state`: slice(0, -1) drops the
\* last element and slice(0) is the whole list
rootReducer_noGuard(st, action) ==
    CASE action.type = "setState" ->
            [f \in DOMAIN st |-> IF f \in DOMAIN action.state THEN action.state[f] ELSE st[f]]
      [] action.type = "addNotification" ->
            [st EXCEPT !.notifications = Append(st.notifications, action.notification)]
      [] action.type = "removeNotification" ->
            LET index == indexOf(st.notifications, action.notification)
                list == st.notifications
            IN
            IF index < 0
            THEN [st EXCEPT !.notifications = SubSeq(list, 1, Len(list) - 1) \o list]
            ELSE [st EXCEPT !.notifications = removeAt(list, index)]
      [] OTHER -> st

\* a reducer whose removeNotification drops the head of the queue
rootReducer_removesHead(st, action) ==
    CASE action.type = "setState" ->
            [f \in DOMAIN st |-> IF f \in DOMAIN action.state THEN action.state[f] ELSE st[f]]
      [] action.type = "addNotification" ->
            [st EXCEPT !.notifications = Append(st.notifications, action.notification)]
      [] action.type = "removeNotification" ->
            LET index == indexOf(st.notifications, action.notification) IN
            IF index < 0 THEN st
            ELSE [st EXCEPT !.notifications = removeAt(st.notifications, 0)]
      [] OTHER -> st

rootReducer(st, action) ==
    CASE action.type = "setState" ->
            [f \in DOMAIN st |-> IF f \in DOMAIN action.state THEN action.state[f] ELSE st[f]]
      [] action.type = "addNotification" ->
            [st EXCEPT !.notifications = Append(st.notifications, action.notification)]
      [] action.type = "removeNotification" ->
            LET index == indexOf(st.notifications, action.notification) IN
            IF index < 0 THEN st
            ELSE [st EXCEPT !.notifications = removeAt(st.notifications, index)]
      [] OTHER -> st

\* store.dispatch
dispatch(st, action) == rootReducer(st, action)

\* the defaults createNotification merges a notification over
DefaultFields ==
    [context |-> Null, level |-> "default", time |-> <<3000>>, closable |-> TRUE]

\* what createNotification makes of a string before the merge
FromString == [time |-> <<3000>>, level |-> "default"]

\* the partial Notifications callers pass (the fields each has)
Partials ==
    { [time |-> <<>>, context |-> "ctxA"],
      [level |-> "error", context |-> "ctxB", closable |-> FALSE] }

\* the partial Notifications deferred producers return
Produced == { [time |-> <<>>, context |-> "ctxA"] }

\* the arguments of addNotification: a string, an object or a function
Inputs ==
    {[form |-> "string", partial |-> FromString]}
    \cup {[form |-> "object", partial |-> p] : p \in Partials}
    \cup {[form |-> "function", partial |-> p] : p \in Produced}

\* Object.assign(defaults, notification), after notification.id = notificationId++
createNotification(partial, id) ==
    [f \in {"id", "context", "level", "time", "closable"} |->
        IF f = "id" THEN id
        ELSE IF f \in DOMAIN partial THEN partial[f]
        ELSE DefaultFields[f]]

Init_notif ==
    /\ state = initialState
    /\ notificationId = 0
    /\ handles = <<>>
    /\ timers = {}
    /\ removers = {}
    /\ removedBy = <<>>

\* the ids in the queue
queued(st) == {st.notifications[i].id : i \in 1..Len(st.notifications)}

\* history: the ids that left the queue in this step are charged to `by`
charge(by) ==
    removedBy' = [i \in DOMAIN removedBy |->
                    IF i - 1 \in queued(state) \ queued(state') THEN by ELSE removedBy[i]]

\* addNotification with the test of notification.time inverted
addNotification_timerInverted(input) ==
    LET n == createNotification(input.partial, notificationId) IN
    /\ notificationId < MaxNotifications
    /\ notificationId' = notificationId + 1
    /\ state' = dispatch(state, [type |-> "addNotification", notification |-> n])
    /\ timers' = IF n.time = <<>> THEN timers \cup {n.id} ELSE timers
    /\ removers' = IF input.form = "function" THEN removers \cup {n.id} ELSE removers
    /\ handles' = Append(handles, [n |-> n, form |-> input.form])
    /\ removedBy' = Append(removedBy, "")

\* addNotification taking the id from the length of the queue
addNotification_idFromLength(input) ==
    LET n == createNotification(input.partial, Len(state.notifications)) IN
    /\ notificationId < MaxNotifications
    /\ notificationId' = notificationId + 1
    /\ state' = dispatch(state, [type |-> "addNotification", notification |-> n])
    /\ timers' = IF n.time # <<>> THEN timers \cup {n.id} ELSE timers
    /\ removers' = IF input.form = "function" THEN removers \cup {n.id} ELSE removers
    /\ handles' = Append(handles, [n |-> n, form |-> input.form])
    /\ removedBy' = Append(removedBy, "")

\* addNotification(notification)
addNotification(input) ==
    LET n == createNotification(input.partial, notificationId) IN
    /\ notificationId < MaxNotifications
    /\ notificationId' = notificationId + 1
    /\ state' = dispatch(state, [type |-> "addNotification", notification |-> n])
    /\ timers' = IF n.time # <<>> THEN timers \cup {n.id} ELSE timers
    /\ removers' = IF input.form = "function" THEN removers \cup {n.id} ELSE removers
    /\ handles' = Append(handles, [n |-> n, form |-> input.form])
    /\ removedBy' = Append(removedBy, "")

\* the setTimeout callback of addNotification
timerFires(id) ==
    /\ id \in timers
    /\ timers' = timers \ {id}
    /\ state' = dispatch(state, [type |-> "removeNotification",
                                 notification |-> handles[id + 1].n])
    /\ charge("timer")
    /\ UNCHANGED <<notificationId, handles, removers>>

\* removeNotification(notification), with any notification ever returned
removeNotification(id) ==
    /\ id + 1 \in DOMAIN handles
    /\ state' = dispatch(state, [type |-> "removeNotification",
                                 notification |-> handles[id + 1].n])
    /\ charge("removeNotification")
    /\ UNCHANGED <<notificationId, handles, timers, removers>>

\* the remover closure handed to a deferred producer
remover(id) ==
    /\ id \in removers
    /\ state' = dispatch(state, [type |-> "removeNotification",
                                 notification |-> handles[id + 1].n])
    /\ charge("remover")
    /\ UNCHANGED <<notificationId, handles, timers, removers>>

\* the filter with === for !==
filterContext_keepsMatching(list, context) == SelectSeq(list, LAMBDA n : n.context = context)

\* notifications.filter(n => n.context !== context)
filterContext(list, context) == SelectSeq(list, LAMBDA n : n.context # context)

removeNotificationsWithContext(context) ==
    /\ state' = dispatch(state, [type |-> "setState",
                                 state |-> [notifications |->
                                    filterContext(state.notifications, context)]])
    /\ charge("context")
    /\ UNCHANGED <<notificationId, handles, timers, removers>>

Next_notif ==
    \/ \E input \in Inputs : addNotification(input) /\ UNCHANGED notNotif
    \/ \E id \in 0..(MaxNotifications - 1) : timerFires(id) /\ UNCHANGED notNotif
    \/ \E id \in 0..(MaxNotifications - 1) : removeNotification(id) /\ UNCHANGED notNotif
    \/ \E id \in 0..(MaxNotifications - 1) : remover(id) /\ UNCHANGED notNotif
    \/ \E context \in Contexts : removeNotificationsWithContext(context) /\ UNCHANGED notNotif

(***************************************************************************)
(* setTheme (store.tsx) and its two nested timers.  A pending timer is a   *)
(* record of its callback (apply the theme, or settle), the theme of the   *)
(* call and its delay.  Timers run in the order of their deadlines: one    *)
(* registered earlier with a delay that is not longer runs first.          *)
(***************************************************************************)
Themes == {"day", "night"}

\* the delays of the outer and of the inner setTimeout, in ms
ApplyDelay == 10
SettleDelay == 1500

SwitchTransition == "switch-transition"

Init_theme ==
    /\ themeCounter = 0
    /\ datasetTheme = Null
    /\ classList = {}
    /\ themeTimers = <<>>
    /\ themeCalls = 0
    /\ themeSettled = <<>>

\* a setTheme whose immediate branch does not return
setTheme_fallsThrough(theme, immediate) ==
    /\ themeCalls < MaxThemeCalls
    /\ themeCalls' = themeCalls + 1
    /\ state' = dispatch(state, [type |-> "setState", state |-> [theme |-> theme]])
    /\ UNCHANGED themeSettled
    /\ datasetTheme' = IF immediate THEN theme ELSE datasetTheme
    /\ themeCounter' = themeCounter + 1
    /\ classList' = classList \cup {SwitchTransition}
    /\ themeTimers' = Append(themeTimers,
            [stage |-> "apply", theme |-> theme, delay |-> ApplyDelay])

\* setTheme(theme, immediate)
setTheme(theme, immediate) ==
    /\ themeCalls < MaxThemeCalls
    /\ themeCalls' = themeCalls + 1
    /\ state' = dispatch(state, [type |-> "setState", state |-> [theme |-> theme]])
    /\ UNCHANGED themeSettled
    /\ IF immediate
       THEN /\ datasetTheme' = theme
            /\ UNCHANGED <<themeCounter, classList, themeTimers>>
       ELSE /\ themeCounter' = themeCounter + 1
            /\ classList' = classList \cup {SwitchTransition}
            /\ themeTimers' = Append(themeTimers,
                    [stage |-> "apply", theme |-> theme, delay |-> ApplyDelay])
            /\ UNCHANGED datasetTheme

\* the timer at index i is the next one due among those that cannot be later
timerDue(i) ==
    /\ i \in DOMAIN themeTimers
    /\ \A j \in 1..(i - 1) : themeTimers[j].delay > themeTimers[i].delay

\* the outer callback: set dataset.theme, start the inner timer
themeApply(i) ==
    /\ timerDue(i)
    /\ themeTimers[i].stage = "apply"
    /\ datasetTheme' = themeTimers[i].theme
    /\ themeTimers' = Append(removeAt(themeTimers, i - 1),
            [stage |-> "settle", theme |-> themeTimers[i].theme, delay |-> SettleDelay])
    /\ UNCHANGED <<state, themeCounter, classList, themeCalls, themeSettled>>

\* an inner callback that removes the class whatever the counter
themeSettle_alwaysRemoves(i) ==
    /\ timerDue(i)
    /\ themeTimers[i].stage = "settle"
    /\ themeCounter' = themeCounter - 1
    /\ classList' = classList \ {SwitchTransition}
    /\ themeTimers' = removeAt(themeTimers, i - 1)
    /\ themeSettled' = Append(themeSettled, themeCounter')
    /\ UNCHANGED <<state, datasetTheme, themeCalls>>

\* the inner callback: --themeCounter, and remove the class if it is below 1
themeSettle(i) ==
    /\ timerDue(i)
    /\ themeTimers[i].stage = "settle"
    /\ themeCounter' = themeCounter - 1
    /\ classList' = IF themeCounter' < 1 THEN classList \ {SwitchTransition} ELSE classList
    /\ themeTimers' = removeAt(themeTimers, i - 1)
    /\ themeSettled' = Append(themeSettled, themeCounter')
    /\ UNCHANGED <<state, datasetTheme, themeCalls>>

Next_theme ==
    \/ \E theme \in Themes, immediate \in BOOLEAN :
          setTheme(theme, immediate) /\ UNCHANGED notTheme
    \/ \E i \in 1..MaxThemeCalls : themeApply(i) /\ UNCHANGED notTheme
    \/ \E i \in 1..MaxThemeCalls : themeSettle(i) /\ UNCHANGED notTheme

(***************************************************************************)
(* Authentication and the request gateway.  The credential is the          *)
(* localStorage item "rt-news.auth"; it outlives a page load, so a         *)
(* behaviour starts with no credential or with one an earlier session      *)
(* stored.  login and loginViaStorage send their trial request with fetch  *)
(* (loginViaHeader), every other function through request().               *)
(***************************************************************************)
Users == {"u"}
Passwords == {"p", "q"}

\* btoa: an injective encoding of the string
btoa(str) == "b64(" \o str \o ")"

Tokens == {btoa(user \o ":" \o password) : user \in Users, password \in Passwords}

\* the budget and the backoff loginViaStorage hands to retry
RetryBudget == 3
RetryBackoff == 1000

\* status of the answer to the trial request; 0 is fetch rejecting
TrialStatuses == {0, 200, 204, 401}

\* the options.headers callers of request() pass: none, or a new Headers with
\* a Content-Type
SuppliedHeaders ==
    { [has |-> FALSE, list |-> <<>>],
      [has |-> TRUE, list |-> << <<"Content-Type", "application/json">> >>] }

\* answers to a gateway request
GatewayResponses ==
    { [status |-> 0, body |-> EmptyBody],
      [status |-> 200, body |-> EmptyBody],
      [status |-> 200, body |-> [kind |-> "unparsable", id |-> "", slug |-> "", title |-> ""]],
      [status |-> 200, body |-> [kind |-> "noid", id |-> "", slug |-> "", title |-> ""]],
      [status |-> 399, body |-> [kind |-> "withid", id |-> "1", slug |-> "a", title |-> "t1"]],
      [status |-> 400, body |-> [kind |-> "noid", id |-> "", slug |-> "", title |-> ""]],
      [status |-> 500, body |-> EmptyBody] }

\* a promise of request() that has not settled
PendingResult ==
    [ok |-> FALSE, err |-> "pending", thrown |-> <<>>, body |-> jsonOrNull(EmptyBody)]

\* items: what localStorage may hold under "rt-news.auth" when the page loads
Init_auth(items) ==
    /\ authStorage \in items
    /\ lastAuthOp = ""
    /\ logins = <<>>
    /\ gateway = <<>>
    /\ sent = <<>>

\* localStorage.getItem("rt-news.auth") as a condition
truthy(item) == item \notin {Null, ""}

\* headers that get the Authorization entry whatever the storage holds
requestHeaders_unconditional(options, item) ==
    Append(IF options.has THEN options.list ELSE <<>>,
           <<"Authorization", "Basic " \o item>>)

\* the headers request() hands to fetch: the caller's Headers or a new one,
\* with Authorization appended when a credential is stored
requestHeaders(options, item) ==
    LET headers == IF options.has THEN options.list ELSE <<>> IN
    IF truthy(item)
    THEN Append(headers, <<"Authorization", "Basic " \o item>>)
    ELSE headers

\* a call of request(endpoint, options) by any function of the module
gatewayRequest(options) ==
    /\ Len(gateway) < MaxGatewayRequests
    /\ gateway' = Append(gateway, [resp |-> NoResponse, out |-> PendingResult])
    /\ sent' = << [supplied |-> options,
                   headers |-> requestHeaders(options, authStorage),
                   after |-> lastAuthOp] >>
    /\ UNCHANGED <<authStorage, lastAuthOp, logins>>

\* the .then of request(): the promise settles
gateway_resume(k, resp) ==
    /\ k \in 1..Len(gateway)
    /\ gateway[k].out = PendingResult
    /\ gateway' = [gateway EXCEPT ![k] = [resp |-> resp, out |-> request(resp)]]
    /\ UNCHANGED <<authStorage, lastAuthOp, logins, sent>>

\* a loginViaHeader whose promise has no catch
loginViaHeader_noCatch(status) ==
    IF status = 0 THEN "rejected"
    ELSE IF status = 200 THEN "true" ELSE "false"

\* what the promise of loginViaHeader settles to
loginViaHeader(status) ==
    IF status = 0 THEN "false"
    ELSE IF status = 200 THEN "true" ELSE "false"

\* login(user, password): the trial request is sent
login(user, password) ==
    /\ Len(logins) < MaxLogins
    /\ logins' = Append(logins, [op |-> "login", auth |-> btoa(user \o ":" \o password),
                                 pc |-> "await", tries |-> 1, delay |-> 0,
                                 out |-> "pending"])
    /\ UNCHANGED <<authStorage, lastAuthOp, gateway, sent>>

\* a .then that stores the credential whatever the result
login_resume_storesAlways(k, status) ==
    /\ k \in 1..Len(logins)
    /\ logins[k].op = "login"
    /\ logins[k].pc = "await"
    /\ authStorage' = logins[k].auth
    /\ lastAuthOp' = "login"
    /\ logins' = [logins EXCEPT ![k].pc = "done", ![k].out = loginViaHeader(status)]
    /\ UNCHANGED <<gateway, sent>>

\* the .then of login: store the credential if the result is true
login_resume(k, status) ==
    LET result == loginViaHeader(status) IN
    /\ k \in 1..Len(logins)
    /\ logins[k].op = "login"
    /\ logins[k].pc = "await"
    /\ IF result = "true"
       THEN authStorage' = logins[k].auth /\ lastAuthOp' = "login"
       ELSE UNCHANGED <<authStorage, lastAuthOp>>
    /\ logins' = [logins EXCEPT ![k].pc = "done", ![k].out = result]
    /\ UNCHANGED <<gateway, sent>>

\* loginViaStorage() with no credential stored: Promise.resolve(false)
loginViaStorage_none ==
    /\ Len(logins) < MaxLogins
    /\ ~truthy(authStorage)
    /\ logins' = Append(logins, [op |-> "loginViaStorage", auth |-> Null,
                                 pc |-> "done", tries |-> 0, delay |-> 0,
                                 out |-> "false"])
    /\ UNCHANGED <<authStorage, lastAuthOp, gateway, sent>>

\* loginViaStorage() with a credential stored: retry makes the first attempt
loginViaStorage_stored ==
    /\ Len(logins) < MaxLogins
    /\ truthy(authStorage)
    /\ logins' = Append(logins, [op |-> "loginViaStorage", auth |-> authStorage,
                                 pc |-> "await", tries |-> 1, delay |-> 0,
                                 out |-> "pending"])
    /\ UNCHANGED <<authStorage, lastAuthOp, gateway, sent>>

\* retry(fn, budget, backoff) after an attempt settled with result: done on
\* success, the backoff and another attempt while the budget lasts, and the
\* result of the last attempt once it is exhausted
retry(call, result, budget, backoff) ==
    IF result = "true"
    THEN [call EXCEPT !.pc = "done", !.out = result]
    ELSE IF call.tries < budget
    THEN [call EXCEPT !.pc = "backoff", !.delay = backoff]
    ELSE [call EXCEPT !.pc = "done", !.out = result]

\* an attempt of loginViaStorage settles
trial_resume(k, status) ==
    /\ k \in 1..Len(logins)
    /\ logins[k].op = "loginViaStorage"
    /\ logins[k].pc = "await"
    /\ logins' = [logins EXCEPT ![k] =
            retry(logins[k], loginViaHeader(status), RetryBudget, RetryBackoff)]
    /\ UNCHANGED <<authStorage, lastAuthOp, gateway, sent>>

\* the backoff of retry is over: the next attempt is made
retry_wake(k) ==
    /\ k \in 1..Len(logins)
    /\ logins[k].pc = "backoff"
    /\ logins' = [logins EXCEPT ![k].pc = "await", ![k].delay = 0,
                                ![k].tries = logins[k].tries + 1]
    /\ UNCHANGED <<authStorage, lastAuthOp, gateway, sent>>

\* logout(): localStorage.removeItem
logout ==
    /\ authStorage' = Null
    /\ lastAuthOp' = "logout"
    /\ UNCHANGED <<logins, gateway, sent>>

Next_login ==
    \/ \E user \in Users, password \in Passwords : login(user, password) /\ UNCHANGED notAuth
    \/ \E k \in 1..MaxLogins, status \in TrialStatuses :
          login_resume(k, status) /\ UNCHANGED notAuth
    \/ loginViaStorage_none /\ UNCHANGED notAuth
    \/ loginViaStorage_stored /\ UNCHANGED notAuth
    \/ \E k \in 1..MaxLogins, status \in TrialStatuses :
          trial_resume(k, status) /\ UNCHANGED notAuth
    \/ \E k \in 1..MaxLogins : retry_wake(k) /\ UNCHANGED notAuth
    \/ logout /\ UNCHANGED notAuth

\* requests and their answers
Next_gateway ==
    \/ \E options \in SuppliedHeaders : gatewayRequest(options) /\ UNCHANGED notAuth
    \/ \E k \in 1..MaxGatewayRequests, resp \in GatewayResponses :
          gateway_resume(k, resp) /\ UNCHANGED notAuth

\* requests as they are issued, among the operations that write the credential
Next_authHeader ==
    \/ \E options \in SuppliedHeaders : gatewayRequest(options) /\ UNCHANGED notAuth
    \/ \E user \in Users, password \in Passwords : login(user, password) /\ UNCHANGED notAuth
    \/ \E k \in 1..MaxLogins, status \in TrialStatuses :
          login_resume(k, status) /\ UNCHANGED notAuth
    \/ logout /\ UNCHANGED notAuth

(***************************************************************************)
(* makeArticleFirst(id): GET /news/positions, then PUT                     *)
(* /news/moveid/{id}/{offset}.  A position table is a function from the    *)
(* ids it lists to their positions.                                        *)
(***************************************************************************)
Positions == {-2, -1, 0, 2}

PositionTables == UNION {[keys -> Positions] : keys \in SUBSET Ids}

\* answers to GET /news/positions: a failure, a body that parses to null, or
\* a table
PositionResponses ==
    {[status |-> st, kind |-> "none", table |-> <<>>] : st \in {0, 500}}
    \cup {[status |-> 200, kind |-> "null", table |-> <<>>]}
    \cup {[status |-> 200, kind |-> "table", table |-> <<t>>] : t \in PositionTables}

\* status of the answer to the move request
MoveStatuses == {0, 200, 500}

NotFoundError == "Can't find id's position"

Init_move == moves = <<>>

mathMax(c, x) == IF x > c THEN x ELSE c

\* Object.values(positions).reduce((c, x) => Math.max(c, x), c0)
RECURSIVE reduceMax(_, _, _)
reduceMax(table, keys, c) ==
    IF keys = {} THEN c
    ELSE LET k == CHOOSE key \in keys : TRUE IN
         reduceMax(table, keys \ {k}, mathMax(c, table[k]))

\* the call: the positions fetch is issued
makeArticleFirst(id) ==
    /\ Len(moves) < MaxMoves
    /\ moves' = Append(moves, [id |-> id, pc |-> "positions", table |-> <<>>,
                               requests |-> << [endpoint |-> "/news/positions", offset |-> 0] >>,
                               err |-> ""])

\* a continuation without the hasOwnProperty test: a missing position is
\* undefined and the offset NaN
afterPositions_noCheck(call, resp) ==
    IF resp.status = 0 THEN [call EXCEPT !.pc = "rejected", !.err = "NetworkError"]
    ELSE IF resp.status >= 400 THEN [call EXCEPT !.pc = "rejected", !.err = "Response"]
    ELSE IF resp.kind = "null" THEN [call EXCEPT !.pc = "rejected", !.err = "TypeError"]
    ELSE LET positions == resp.table[1]
             maxPos == reduceMax(positions, DOMAIN positions, 0)
         IN
         [call EXCEPT !.pc = "move", !.table = resp.table,
                      !.requests = Append(call.requests,
                           [endpoint |-> "/news/moveid",
                            offset |-> IF call.id \in DOMAIN positions
                                       THEN maxPos - positions[call.id] ELSE 0])]

\* the code after `await request("/news/positions")`
afterPositions(call, resp) ==
    IF resp.status = 0 THEN [call EXCEPT !.pc = "rejected", !.err = "NetworkError"]
    ELSE IF resp.status >= 400 THEN [call EXCEPT !.pc = "rejected", !.err = "Response"]
    ELSE IF resp.kind = "null" THEN [call EXCEPT !.pc = "rejected", !.err = "TypeError"]
    ELSE LET positions == resp.table[1] IN
         IF call.id \notin DOMAIN positions
         THEN [call EXCEPT !.pc = "rejected", !.err = NotFoundError, !.table = resp.table]
         ELSE LET pos == positions[call.id]
                  maxPos == reduceMax(positions, DOMAIN positions, 0)
                  offset == maxPos - pos
              IN
              [call EXCEPT !.pc = "move", !.table = resp.table,
                           !.requests = Append(call.requests,
                                [endpoint |-> "/news/moveid", offset |-> offset])]

positions_resume(k, resp) ==
    /\ k \in 1..Len(moves)
    /\ moves[k].pc = "positions"
    /\ moves' = [moves EXCEPT ![k] = afterPositions(moves[k], resp)]

\* the promise of the move request, which makeArticleFirst returns, settles
move_resume(k, status) ==
    /\ k \in 1..Len(moves)
    /\ moves[k].pc = "move"
    /\ moves' = [moves EXCEPT ![k] =
            IF status = 0 THEN [moves[k] EXCEPT !.pc = "rejected", !.err = "NetworkError"]
            ELSE IF status >= 400 THEN [moves[k] EXCEPT !.pc = "rejected", !.err = "Response"]
            ELSE [moves[k] EXCEPT !.pc = "resolved"]]

Next_move ==
    \/ \E id \in Ids : makeArticleFirst(id) /\ UNCHANGED notMove
    \/ \E k \in 1..MaxMoves, resp \in PositionResponses :
          positions_resume(k, resp) /\ UNCHANGED notMove
    \/ \E k \in 1..MaxMoves, status \in MoveStatuses :
          move_resume(k, status) /\ UNCHANGED notMove

(***************************************************************************)
(* The snippet rewriting of processArticle:                                *)
(*   snippet.replace(/(\t|\s)+/g, " ").replace(/([^\s\\]{16})/gm, "$1&shy;")  *)
(* A string is a sequence of one-character strings.                        *)
(***************************************************************************)
Space == " "
Tab == "\t"
Backslash == "\\"

\* the length of a match of longWordRegex
LongWord == 16

\* the text the second replace puts after each match
Shy == <<"&", "s", "h", "y", ";">>

\* \s
isWhitespace(c) == c \in {Space, Tab}

\* [^\s\\]
isWordChar(c) == ~isWhitespace(c) /\ c # Backslash

Run(n) == [i \in 1..n |-> "a"]

\* the pieces raw snippets are put together from
Segments == {Run(1), Run(15), Run(16), <<Space>>, <<Tab>>, <<Backslash>>}

\* replace(whitespaceRegex, " "): every maximal run of whitespace becomes one
\* space
RECURSIVE collapseWhitespace(_)
collapseWhitespace(str) ==
    IF str = <<>> THEN <<>>
    ELSE IF isWhitespace(Head(str))
    THEN LET rest == collapseWhitespace(Tail(str)) IN
         IF Len(str) > 1 /\ isWhitespace(str[2]) THEN rest ELSE <<Space>> \o rest
    ELSE <<Head(str)>> \o collapseWhitespace(Tail(str))

\* the regex matches at the head of str: 16 characters of the class
matchesLongWord(str) ==
    /\ Len(str) >= LongWord
    /\ \A i \in 1..LongWord : isWordChar(str[i])

\* replace(longWordRegex, "$1&shy;"): matches are found from left to right and
\* do not overlap
RECURSIVE softHyphenate(_)
softHyphenate(str) ==
    IF str = <<>> THEN <<>>
    ELSE IF matchesLongWord(str)
    THEN SubSeq(str, 1, LongWord) \o Shy
            \o softHyphenate(SubSeq(str, LongWord + 1, Len(str)))
    ELSE <<Head(str)>> \o softHyphenate(Tail(str))

\* what processArticle makes of output.snippet
normalize(str) == softHyphenate(collapseWhitespace(str))

Init_snippet ==
    /\ snippet = <<>>
    /\ nseg = 0
    /\ passes = 0

\* the server's raw snippet grows by one segment
writeSnippet(segment) ==
    /\ passes = 0
    /\ nseg < MaxSegments
    /\ snippet' = snippet \o segment
    /\ nseg' = nseg + 1
    /\ UNCHANGED passes

\* processArticle rewrites the snippet
processSnippet ==
    /\ passes < MaxPasses
    /\ snippet' = normalize(snippet)
    /\ passes' = passes + 1
    /\ UNCHANGED nseg

Next_snippet ==
    \/ \E segment \in Segments : writeSnippet(segment) /\ UNCHANGED notSnippet
    \/ processSnippet /\ UNCHANGED notSnippet

(***************************************************************************)
(* Specifications: the whole program, and one per component (the           *)
(* components share no state).                                             *)
(***************************************************************************)
\* a first visit: nothing is stored
Init ==
    /\ Init_cache /\ Init_poll /\ Init_notif /\ Init_theme /\ Init_move /\ Init_snippet
    /\ Init_auth({Null})

\* any visit: an earlier session may have stored a credential
InitStored ==
    /\ Init_cache /\ Init_poll /\ Init_notif /\ Init_theme /\ Init_move /\ Init_snippet
    /\ Init_auth({Null} \cup Tokens)

Next ==
    \/ Next_cache \/ Next_poll \/ Next_notif \/ Next_theme
    \/ Next_login \/ Next_gateway \/ Next_authHeader \/ Next_move \/ Next_snippet

Spec == Init /\ [][Next]_vars

CacheSpec == Init /\ [][Next_cache]_vars

GetSpec == Init /\ [][Next_get]_vars

PollSpec == Init /\ [][Next_poll]_vars

NotifSpec == Init /\ [][Next_notif]_vars

ThemeSpec == Init /\ [][Next_theme]_vars

LoginSpec == InitStored /\ [][Next_login]_vars

GatewaySpec == InitStored /\ [][Next_gateway]_vars

AuthHeaderSpec == InitStored /\ [][Next_authHeader]_vars

MoveSpec == Init /\ [][Next_move]_vars

SnippetSpec == Init /\ [][Next_snippet]_vars

\* the long poll with the scheduling the event loop gives it: a pending sleep
\* timer fires; and a server that, asked again and again, sooner or later
\* answers with an id (the hypothesis of the termination claim)
FairPollSpec ==
    /\ PollSpec
    /\ \A p \in 1..MaxPollers : WF_vars(poll_wake(p) /\ UNCHANGED notPoll)
    /\ \A p \in 1..MaxPollers :
          SF_vars(\E resp \in IdResponses : poll_resume(p, resp) /\ UNCHANGED notPoll)

\* setTheme with its timers firing: while one is pending, one fires
FairThemeSpec ==
    /\ ThemeSpec
    /\ WF_vars(\E i \in 1..MaxThemeCalls :
                  (themeApply(i) \/ themeSettle(i)) /\ UNCHANGED notTheme)

\* the notification queue with its timers firing
FairNotifSpec ==
    /\ NotifSpec
    /\ \A id \in 0..(MaxNotifications - 1) : WF_vars(timerFires(id) /\ UNCHANGED notNotif)

(***************************************************************************)
(* Article cache: claims C1 - C5.                                          *)
(***************************************************************************)
\* C1: every id that is a key of articlesIdSlugMap maps to a slug that is a key
\* of articlesCache, in every reachable state.
C1_IndexedSlugIsCached ==
    \A id \in DOMAIN articlesIdSlugMap : articlesIdSlugMap[id] \in DOMAIN articlesCache

\* an entry for the article with this id, in either map
holdsId(cache, index, id) ==
    \/ id \in DOMAIN index
    \/ \E s \in DOMAIN cache : cache[s].id = id

cachedTitleIds(cache, title) == {cache[s].id : s \in evictedSlugs(cache, "title", title)}

\* C2: whenever a mutation is called on an article that is in the cache (by id;
\* by title for addArticle), then when its write request is issued neither
\* articlesCache nor articlesIdSlugMap holds an entry for that article.
C2_MutationEvictsTarget ==
    [][ /\ \A id \in Ids :
            ( /\ updateArticle(id) \/ \E op \in IdOnlyMutations : idOnlyMutation(op, id)
              /\ \E s \in DOMAIN articlesCache : articlesCache[s].id = id )
            => ~holdsId(articlesCache', articlesIdSlugMap', id)
        /\ \A title \in Titles :
            addArticle(title)
            => \A id \in cachedTitleIds(articlesCache, title) :
                  ~holdsId(articlesCache', articlesIdSlugMap', id)
      ]_vars

\* the Article a completed fetch inserted for this id / under this slug
insertedForId(id) ==
    {calls[k].out.art[1] : k \in {j \in 1..Len(calls) :
        ~calls[j].hit /\ calls[j].out.kind = "article" /\ calls[j].out.art[1].id = id}}

insertedUnderSlug(slug) ==
    {calls[k].out.art[1] : k \in {j \in 1..Len(calls) :
        /\ ~calls[j].hit /\ calls[j].out.kind = "article"
        /\ cacheKey(calls[j], calls[j].out.art[1]) = slug}}

\* C3: a getArticle(id) made while id is indexed, and a getArticleBySlug(slug)
\* made while slug is cached, issues no request, leaves the cache as it is and
\* resolves to the very Article object an earlier fetch inserted for it.
C3_HitReturnsInsertedArticle ==
    [][ /\ \A id \in Ids :
            getArticle_hit(id)
            => /\ nreq' = nreq
               /\ UNCHANGED <<articlesCache, articlesIdSlugMap>>
               /\ calls'[Len(calls')].out.kind = "article"
               /\ calls'[Len(calls')].out.art[1] \in insertedForId(id)
        /\ \A slug \in Slugs :
            getArticleBySlug_hit(slug)
            => /\ nreq' = nreq
               /\ UNCHANGED <<articlesCache, articlesIdSlugMap>>
               /\ calls'[Len(calls')].out.kind = "article"
               /\ calls'[Len(calls')].out.art[1] \in insertedUnderSlug(slug)
      ]_vars

\* C4: a 404 answer to GET /news/id/{id} resolves getArticle(id) to null, a 500
\* answer rejects it with the response; neither changes the cache.
C4_NotFoundResolvesNull ==
    [][ \A k \in 1..MaxGets, resp \in Responses :
            (get_resume(k, resp) /\ calls[k].op = "getArticle" /\ resp.status \in {404, 500})
            => /\ resp.status = 404 => calls'[k].out = ResolvedNull
               /\ resp.status = 500 => calls'[k].out = Rejected("Response")
               /\ UNCHANGED <<articlesCache, articlesIdSlugMap>>
      ]_vars

\* C5: on a miss, a successful result without an id field (the null of an empty
\* or unparsable body included) resolves getArticle / getArticleBySlug to null
\* and inserts nothing.
C5_NoIdResolvesNull ==
    [][ \A k \in 1..MaxGets, resp \in Responses :
            (get_resume(k, resp) /\ resp.status = 200 /\ resp.body.kind # "withid")
            => /\ calls'[k].out = ResolvedNull
               /\ UNCHANGED <<articlesCache, articlesIdSlugMap>>
      ]_vars

(***************************************************************************)
(* Long poll: claims C6, C7.                                               *)
(***************************************************************************)
\* C6: pollActiveArticle never rejects; a failed long-poll request is absorbed
\* and followed by a 3000 ms cooldown before the next request; the call
\* resolves only with the id of a successful response.
C6_PollAbsorbsFailures ==
    [][ \A p \in 1..MaxPollers :
            /\ polls'[p].pc \in {"idle", "await", "sleep", "resolved"}
            /\ \A resp \in PollResponses :
                  (poll_resume(p, resp) /\ (resp.status = 0 \/ resp.status >= 400))
                  => /\ polls'[p].pc = "sleep"
                     /\ polls'[p].delay = 3000
                     /\ polls'[p].reqs = polls[p].reqs
            /\ (polls[p].pc = "sleep" /\ polls'[p] # polls[p]) => poll_wake(p)
            /\ (polls[p].pc # "resolved" /\ polls'[p].pc = "resolved")
                  => \E resp \in IdResponses :
                        poll_resume(p, resp) /\ polls'[p].value = resp.body.id
      ]_vars

\* a call that resolved after a failed request and its cooldown
C6_Witness ==
    \E p \in 1..MaxPollers :
        polls[p].pc = "resolved" /\ polls[p].failed /\ polls[p].reqs >= 2

\* C7: the first long-poll response that carries an id resolves the call to
\* that id and no further request is issued; with the timers firing and a
\* server that eventually answers with an id, every started call resolves.
C7_PollTerminatesOnId ==
    /\ [][ \A p \in 1..MaxPollers :
            /\ \A resp \in IdResponses :
                  poll_resume(p, resp)
                  => /\ polls'[p].pc = "resolved"
                     /\ polls'[p].value = resp.body.id
                     /\ polls'[p].reqs = polls[p].reqs
            /\ polls[p].pc = "resolved" => polls'[p] = polls[p]
         ]_vars
    /\ \A p \in 1..MaxPollers :
          (polls[p].pc \in {"await", "sleep"}) ~> (polls[p].pc = "resolved")

\* a call that resolved after failures and after id-less responses
C7_Witness ==
    \E p \in 1..MaxPollers :
        /\ polls[p].pc = "resolved"
        /\ polls[p].value \in Ids
        /\ polls[p].failed
        /\ polls[p].idless

(***************************************************************************)
(* Notification queue: claims C8 - C10.                                    *)
(***************************************************************************)
timed(id) == handles[id + 1].n.time # <<>>

\* C8: a notification added from a string is enqueued with level "default",
\* time 3000, closable true and context null; its timer removes it if it is
\* still queued; and every queued notification whose time is not null
\* eventually leaves the queue.
C8_StringDefaultsAutoDismiss ==
    /\ [][ /\ \A input \in Inputs :
               addNotification(input)
               => LET n == state'.notifications[Len(state'.notifications)] IN
                  /\ n.id = notificationId
                  /\ Len(state'.notifications) = Len(state.notifications) + 1
                  /\ input.form = "string" =>
                        /\ n.level = "default"
                        /\ n.time = <<3000>>
                        /\ n.closable = TRUE
                        /\ n.context = Null
                        /\ n.id \in timers'
           /\ \A id \in 0..(MaxNotifications - 1) :
               timerFires(id) => id \notin queued(state')
         ]_vars
    /\ \A id \in 0..(MaxNotifications - 1) :
          (id \in queued(state) /\ timed(id)) ~> (id \notin queued(state))

\* a notification added from a string that its own timer removed
C8_Witness ==
    \E i \in DOMAIN handles :
        /\ handles[i].form = "string"
        /\ removedBy[i] = "timer"
        /\ handles[i].n.id \notin queued(state)

\* position of the notification with this id in the list (0 when absent)
position(list, id) ==
    IF \E i \in 1..Len(list) : list[i].id = id
    THEN CHOOSE i \in 1..Len(list) : list[i].id = id
    ELSE 0

\* C9: removeNotificationsWithContext(c) removes exactly the notifications
\* whose context is c (null included): each of them is gone, every other one
\* stays, in the same relative order, and nothing else in the store changes.
C9_RemoveByContextExact ==
    [][ \A c \in Contexts :
            removeNotificationsWithContext(c)
            => LET old == state.notifications
                   new == state'.notifications
               IN
               /\ \A i \in 1..Len(old) :
                     (old[i].context = c) <=> (\A j \in 1..Len(new) : new[j] # old[i])
               /\ \A j \in 1..Len(new) : \E i \in 1..Len(old) : old[i] = new[j]
               /\ \A j1, j2 \in 1..Len(new) :
                     j1 < j2 => position(old, new[j1].id) < position(old, new[j2].id)
               /\ \A f \in (DOMAIN state) \ {"notifications"} : state'[f] = state[f]
      ]_vars

\* a context group was removed while a notification of another context,
\* queued before one of the removed ones, stays queued
C9_Witness ==
    \E i, j \in DOMAIN handles :
        /\ i < j
        /\ removedBy[j] = "context"
        /\ handles[i].n.context # handles[j].n.context
        /\ handles[i].n.id \in queued(state)

\* C10: a removeNotification dispatch (from the timer, removeNotification or a
\* remover) for a notification that is not in the queue leaves the store
\* state as it is.
C10_StaleRemovalIsNoOp ==
    [][ \A id \in 0..(MaxNotifications - 1) :
            ( /\ timerFires(id) \/ removeNotification(id) \/ remover(id)
              /\ id \notin queued(state) )
            => state' = state
      ]_vars

\* the timer of an explicitly removed notification has fired while another
\* notification was queued
C10_Witness ==
    \E i \in DOMAIN handles :
        /\ removedBy[i] \in {"removeNotification", "remover", "context"}
        /\ timed(i - 1)
        /\ (i - 1) \notin timers
        /\ state.notifications # <<>>

(***************************************************************************)
(* Notification ids: claim C11.                                            *)
(***************************************************************************)
\* C11: each added notification gets an id strictly greater than every id
\* assigned before it, no two notifications ever share an id (the ids of
\* removed notifications are not reused), and the queue is always in
\* ascending order of id.
C11_IdsMonotonicQueueAscending ==
    /\ [][ \A input \in Inputs :
               addNotification(input)
               => LET n == handles'[Len(handles')].n IN
                  /\ \A i \in DOMAIN handles : handles[i].n.id < n.id
                  /\ state'.notifications[Len(state'.notifications)] = n
         ]_vars
    /\ [] /\ \A i, j \in DOMAIN handles : i # j => handles[i].n.id # handles[j].n.id
          /\ \A i, j \in 1..Len(state.notifications) :
                i < j => state.notifications[i].id < state.notifications[j].id

\* the first notification has been removed and the two added after it are
\* queued, in the order of their ids
C11_Witness ==
    /\ Len(handles) = 3
    /\ removedBy[1] # ""
    /\ Len(state.notifications) = 2
    /\ state.notifications[1].id = 1
    /\ state.notifications[2].id = 2

(***************************************************************************)
(* Theme transition guard: claim C12.                                      *)
(***************************************************************************)
\* the non-immediate switches that have started and not yet settled: each has
\* exactly one timer pending
inFlight == Len(themeTimers)

\* C12: the switch-transition marker is set whenever a non-immediate switch is
\* in flight; themeCounter always equals the number of in-flight switches and
\* is never negative; and the marker is removed only by the settle step that
\* brings the counter back to zero.
C12_MarkerGuardsInFlightSwitches ==
    /\ [] /\ inFlight >= 1 => SwitchTransition \in classList
          /\ themeCounter = inFlight
          /\ themeCounter >= 0
    /\ [][ (SwitchTransition \in classList /\ SwitchTransition \notin classList')
            => /\ \E i \in 1..MaxThemeCalls : themeSettle(i)
               /\ themeCounter = 1
               /\ themeCounter' = 0
         ]_vars

\* one switch settled while another was in flight, leaving the marker set, and
\* the settle step of the last one then removed it
C12_Witness ==
    /\ Len(themeSettled) >= 2
    /\ themeSettled[1] = 1
    /\ themeSettled[Len(themeSettled)] = 0
    /\ themeCounter = 0
    /\ SwitchTransition \notin classList

(***************************************************************************)
(* Authentication: claims C13, C14.                                        *)
(***************************************************************************)
\* C13: login stores its credential and resolves true only when the trial
\* request is answered with status 200; on any other status or a network
\* failure it resolves false and leaves the stored credential as it is; it
\* never rejects, and the call itself writes nothing.
C13_LoginPersistsOnlyOn200 ==
    /\ [][ /\ \A k \in 1..MaxLogins, status \in TrialStatuses :
                login_resume(k, status)
                => IF status = 200
                   THEN /\ logins'[k].out = "true"
                        /\ authStorage' = logins[k].auth
                   ELSE /\ logins'[k].out = "false"
                        /\ authStorage' = authStorage
           /\ \A user \in Users, password \in Passwords :
                login(user, password)
                => /\ authStorage' = authStorage
                   /\ logins'[Len(logins')].auth = btoa(user \o ":" \o password)
         ]_vars
    /\ [] \A k \in 1..Len(logins) :
            logins[k].op = "login" => logins[k].out \in {"pending", "true", "false"}

\* one login failed and left the credential of the earlier, successful one
C13_Witness ==
    /\ Len(logins) = 2
    /\ logins[1].op = "login" /\ logins[1].out = "true"
    /\ logins[2].op = "login" /\ logins[2].out = "false"
    /\ logins[1].auth # logins[2].auth
    /\ authStorage = logins[1].auth
    /\ lastAuthOp = "login"

parsedOrNull(body) ==
    IF body.kind \in {"empty", "unparsable"}
    THEN [kind |-> "null", id |-> "", slug |-> "", title |-> ""]
    ELSE body

\* C15: a response with status >= 400 rejects the promise of request() with
\* the response itself; a response with status < 400 never rejects: it
\* resolves to the parsed JSON body, or to null when the body is empty or
\* unparsable.
C15_RejectsFrom400WithResponse ==
    [][ \A k \in 1..MaxGatewayRequests, resp \in GatewayResponses :
            (gateway_resume(k, resp) /\ resp.status # 0)
            => IF resp.status >= 400
               THEN /\ ~gateway'[k].out.ok
                    /\ gateway'[k].out.thrown = <<resp>>
               ELSE /\ gateway'[k].out.ok
                    /\ gateway'[k].out.thrown = <<>>
                    /\ gateway'[k].out.body = parsedOrNull(resp.body)
      ]_vars

\* one request was rejected with a 400 response that has a JSON body, another
\* resolved to null on an unparsable body
C15_Witness ==
    \E j, k \in 1..Len(gateway) :
        /\ gateway[j].resp.status = 400
        /\ gateway[j].out.thrown = <<gateway[j].resp>>
        /\ gateway[k].resp.status = 200
        /\ gateway[k].resp.body.kind = "unparsable"
        /\ gateway[k].out.ok
        /\ gateway[k].out.body.kind = "null"

\* the values of the entries of a header list with this name
headerValues(headers, name) ==
    SelectSeq(headers, LAMBDA h : h[1] = name)

\* the entries of a header list with another name
otherHeaders(headers, name) ==
    SelectSeq(headers, LAMBDA h : h[1] # name)

\* C16: a request issued through request() while a credential is stored
\* carries one Authorization header, "Basic " and the stored token; one issued
\* while none is stored carries no Authorization header; the other headers
\* are the caller's; logout leaves no credential stored, and only a login
\* answered 200 stores one.
C16_AuthorizationFollowsStorage ==
    [][ /\ \A options \in SuppliedHeaders :
            gatewayRequest(options)
            => LET headers == sent'[1].headers IN
               /\ authStorage \in Tokens
                    => headerValues(headers, "Authorization")
                         = << <<"Authorization", "Basic " \o authStorage>> >>
               /\ authStorage = Null => headerValues(headers, "Authorization") = <<>>
               /\ otherHeaders(headers, "Authorization")
                    = (IF options.has THEN options.list ELSE <<>>)
        /\ logout => authStorage' = Null
        /\ (authStorage = Null /\ authStorage' # Null)
            => \E k \in 1..MaxLogins : login_resume(k, 200)
        /\ authStorage \in {Null} \cup Tokens
      ]_vars

\* a request issued after a logout that followed a stored credential carried
\* no Authorization header, and a later login has succeeded
C16_Witness ==
    /\ sent # <<>>
    /\ sent[1].after = "logout"
    /\ headerValues(sent[1].headers, "Authorization") = <<>>
    /\ sent[1].supplied.has
    /\ authStorage \in Tokens
    /\ lastAuthOp = "login"

(***************************************************************************)
(* makeArticleFirst: claims C17, C19.                                      *)
(***************************************************************************)
\* C17: when the fetched position table does not list id, makeArticleFirst(id)
\* fails with the "position not found" error and issues no /news/moveid
\* request: the positions fetch stays its only request.
C17_AbsentIdFailsWithoutMove ==
    [][ /\ \A k \in 1..MaxMoves, resp \in PositionResponses :
            ( /\ positions_resume(k, resp)
              /\ resp.kind = "table"
              /\ moves[k].id \notin DOMAIN resp.table[1] )
            => /\ moves'[k].pc = "rejected"
               /\ moves'[k].err = "Can't find id's position"
               /\ moves'[k].requests = << [endpoint |-> "/news/positions", offset |-> 0] >>
        /\ \A k \in 1..Len(moves) :
            moves[k].pc = "rejected" => moves'[k] = moves[k]
      ]_vars

\* a call failed on a table that lists another id only
C17_Witness ==
    \E k \in 1..Len(moves) :
        /\ moves[k].pc = "rejected"
        /\ moves[k].err = NotFoundError
        /\ moves[k].table # <<>>
        /\ DOMAIN moves[k].table[1] # {}
        /\ Len(moves[k].requests) = 1

\* the largest element of a non-empty set of integers
SetMax(S) == CHOOSE m \in S : \A x \in S : x <= m

tableValues(table) == {table[key] : key \in DOMAIN table}

\* C19: when the fetched table lists id, makeArticleFirst(id) issues exactly
\* one move request, after the positions fetch resolved, with offset = (the
\* largest position in the table) - (the position of id), for every table of
\* integer positions; the offset is not negative and position + offset is the
\* largest position.
C19_OffsetReachesMaximum ==
    [][ /\ \A k \in 1..MaxMoves, resp \in PositionResponses :
            ( /\ positions_resume(k, resp)
              /\ resp.kind = "table"
              /\ moves[k].id \in DOMAIN resp.table[1] )
            => LET table == resp.table[1]
                   pos == table[moves[k].id]
                   sentNow == moves'[k].requests
               IN
               /\ Len(sentNow) = 2
               /\ sentNow[1].endpoint = "/news/positions"
               /\ sentNow[2].endpoint = "/news/moveid"
               /\ sentNow[2].offset = SetMax(tableValues(table)) - pos
               /\ sentNow[2].offset >= 0
               /\ pos + sentNow[2].offset = SetMax(tableValues(table))
        /\ \A k \in 1..Len(moves) :
            Len(moves'[k].requests) > Len(moves[k].requests)
            => \E resp \in PositionResponses : positions_resume(k, resp)
      ]_vars

(***************************************************************************)
(* Snippet normalisation: claim C18.                                       *)
(***************************************************************************)
\* C18: normalising a snippet that has been normalised leaves it as it is, for
\* every snippet, those with a run of 16 or more non-whitespace characters
\* included.
C18_NormalizeIdempotent ==
    [][ (processSnippet /\ passes >= 1) => snippet' = snippet ]_vars

(***************************************************************************)
(* Concurrent lookups: claim C20.                                          *)
(***************************************************************************)
\* call j is a getArticle(id) that went to the network
fetches(j, id) ==
    /\ j \in 1..Len(calls)
    /\ calls[j].op = "getArticle"
    /\ calls[j].arg = id
    /\ ~calls[j].hit

\* every fetch that has produced an Article with this id was answered with
\* this slug, and stored it under this slug
answeredWithSlug(id, slug) ==
    \A m \in 1..Len(calls) :
        (calls[m].out.kind = "article" /\ calls[m].out.art[1].id = id)
        => /\ calls[m].out.art[1].slug = slug
           /\ cacheKey(calls[m], calls[m].out.art[1]) = slug

\* C20: a getArticle(id) made while id is not cached and another
\* getArticle(id) is pending issues its own request; and when the second of
\* two such calls completes, the server having answered with the article (its
\* id, and the one slug it has), the cache holds one slug entry and one id
\* entry for the article, and the cached Article is the one made from the
\* response that resolved last.
C20_ConcurrentMissesLastWriteWins ==
    [][ /\ \A id \in Ids :
            ( /\ \E j \in 1..Len(calls) : fetches(j, id) /\ calls[j].out.kind = "pending"
              /\ id \notin DOMAIN articlesIdSlugMap
              /\ Len(calls') = Len(calls) + 1
              /\ calls'[Len(calls')].op = "getArticle"
              /\ calls'[Len(calls')].arg = id )
            => /\ nreq' = nreq + 1
               /\ lastReq' = [op |-> "getArticle", arg |-> id]
               /\ calls'[Len(calls')].out.kind = "pending"
        /\ \A j, k \in 1..Len(calls) :
            LET id == calls[k].arg
                resp == calls'[k].resp
            IN
            ( /\ j # k
              /\ fetches(j, id) /\ fetches(k, id)
              /\ calls[k].out.kind = "pending" /\ calls'[k].out.kind = "article"
              /\ calls[j].out.kind = "article"
              /\ resp.body.id = id /\ calls[j].resp.body.id = id
              /\ answeredWithSlug(id, resp.body.slug) )
            => /\ {s \in DOMAIN articlesCache' : articlesCache'[s].id = id} = {resp.body.slug}
               /\ id \in DOMAIN articlesIdSlugMap'
               /\ articlesIdSlugMap'[id] = resp.body.slug
               /\ articlesCache'[resp.body.slug].obj = k
               /\ articlesCache'[resp.body.slug].title = resp.body.title
      ]_vars

\* two getArticle("1") were pending together (each with its own request); the
\* one made second was answered first, and the cache holds the Article of the
\* one made first, which resolved last
C20_Witness ==
    /\ Len(calls) = 2
    /\ nreq = 2
    /\ fetches(1, "1") /\ fetches(2, "1")
    /\ calls[1].out.kind = "article" /\ calls[2].out.kind = "article"
    /\ calls[1].out.art[1].id = "1" /\ calls[2].out.art[1].id = "1"
    /\ calls[1].out.art[1].slug = "a" /\ calls[2].out.art[1].slug = "a"
    /\ calls[1].out.art[1].title # calls[2].out.art[1].title
    /\ DOMAIN articlesCache = {"a"}
    /\ articlesCache["a"] = calls[1].out.art[1]
    /\ articlesIdSlugMap = [i \in {"1"} |-> "a"]

(***************************************************************************)
(* Notification lifecycle: claim C21.                                      *)
(***************************************************************************)
\* C21: a queued notification leaves the queue only in a step of its own
\* timer, of removeNotification with it, of its remover, or of
\* removeNotificationsWithContext with its context; a notification whose time
\* is null has no timer, so only the explicit removals take it out.
C21_LeavesOnlyByOwnRoutes ==
    /\ [][ \A id \in queued(state) \ queued(state') :
               \/ timerFires(id) /\ timed(id)
               \/ removeNotification(id)
               \/ remover(id)
               \/ removeNotificationsWithContext(handles[id + 1].n.context)
         ]_vars
    /\ [][ \A id \in 0..(MaxNotifications - 1) :
               (timerFires(id) \/ removeNotification(id) \/ remover(id))
               => queued(state) \ queued(state') \subseteq {id}
         ]_vars
    /\ [][ \A input \in Inputs :
               addNotification(input) => queued(state) \subseteq queued(state')
         ]_vars
    /\ [] \A id \in timers : timed(id)

\* a notification without a timer is still queued after the timer of another
\* one fired and a third one was removed explicitly
C21_Witness ==
    \E i, j, k \in DOMAIN handles :
        /\ ~timed(i - 1)
        /\ (i - 1) \in queued(state)
        /\ removedBy[j] = "timer"
        /\ removedBy[k] \in {"removeNotification", "remover"}

(***************************************************************************)
(* Theme transition guard: claims C22, C24.                                *)
(***************************************************************************)
\* no switch in flight, counter at zero, no marker
idle ==
    /\ themeTimers = <<>>
    /\ themeCounter = 0
    /\ SwitchTransition \notin classList

\* C22: whenever no timer of setTheme is pending, themeCounter is 0 and the
\* switch-transition marker is absent; an immediate setTheme changes neither
\* the counter nor the marker; and with the timers firing, the guard returns
\* to idle from every state.
C22_GuardReturnsToIdle ==
    /\ [](themeTimers = <<>> => idle)
    /\ [][ \A theme \in Themes :
               setTheme(theme, TRUE)
               => /\ themeCounter' = themeCounter
                  /\ classList' = classList
                  /\ themeTimers' = themeTimers
         ]_vars
    /\ (themeTimers # <<>>) ~> idle

\* three calls, one of them immediate, the two others overlapping: all timers
\* have fired and the guard is idle
C22_Witness ==
    /\ themeCalls = 3
    /\ Len(themeSettled) = 2
    /\ themeSettled[1] = 1
    /\ idle

\* C24: when setTheme has been called and no timer of it is pending, the
\* theme of the document (dataset.theme) is the theme in the store state.
C24_DocumentThemeMatchesStore ==
    (themeCalls > 0 /\ themeTimers = <<>>) => datasetTheme = state.theme

(***************************************************************************)
(* Updates against lookups in flight: claim C23.                           *)
(***************************************************************************)
\* C23: once an updateArticle({id}) has evicted the cached entry and its
\* request has completed, the cache holds no Article with that id that a
\* lookup already in flight at the update has produced.
C23_NoStaleReinsert ==
    \A w \in 1..Len(writes) :
        (writes[w].done /\ writes[w].evicted # {})
        => \A slug \in DOMAIN articlesCache :
               articlesCache[slug].id = writes[w].id
               => articlesCache[slug].obj \notin writes[w].before
====
